---- MODULE Spec2Model ----
(***************************************************************************)
(* A model of neat/genetics/species.go: the Species entity of goNEAT.      *)
(*                                                                         *)
(* Four specifications share the variables below:                          *)
(*   SpecMembership  addOrganism / removeOrganism on one species           *)
(*   SpecCount       countOffspring chained over the ranked species        *)
(*   SpecAdjust      adjustFitness on one species                          *)
(*   SpecReproduce   reproduce, one offspring per step                     *)
(*                                                                         *)
(* Real numbers are exact rationals.  Offspring shares are integers in     *)
(* units of 1/FracDen; fitness values are reduced fractions <<num, den>>;  *)
(* probabilities and uniform draws are integers in units of 1/Scale.       *)
(***************************************************************************)
EXTENDS Integers, Sequences, FiniteSets

VARIABLES
    pc,                   \* position: "idle", "panic", or a point inside reproduce
    Organisms,            \* s.Organisms of the species under membership / adjustFitness
    org,                  \* the Organism objects: id -> fields
    Age,                  \* s.Age
    AgeOfLastImprovement, \* s.AgeOfLastImprovement
    MaxFitnessEver,       \* s.MaxFitnessEver
    conf,                 \* the *neat.Neat configuration of the run
    ret,                  \* what the last call returned
    entry,                \* what the last call found on entry
    calls,                \* number of adjustFitness calls made so far
    rank,                 \* countOffspring: per counted species, the sum of its organisms' ExpectedOffspring
    spExpected,           \* countOffspring: s.ExpectedOffspring of the species counted so far
    skim,                 \* countOffspring: the skim handed to the next call
    pop,                  \* reproduce: the Population (species, lastSpecies)
    loc,                  \* reproduce: the locals of the running call
    baby                  \* reproduce: the organism created by the latest iteration

vars == <<pc, Organisms, org, Age, AgeOfLastImprovement, MaxFitnessEver, conf,
          ret, entry, calls, rank, spExpected, skim, pop, loc, baby>>

\* ------------------------------------------------------------------ bounds
MaxOrg == 3          \* organism identities 1..MaxOrg
MaxLen == 4          \* longest s.Organisms explored by SpecMembership
FracDen == 4         \* offspring shares are multiples of 1/FracDen
MaxShare == 6        \* largest individual share, in units of 1/FracDen
MaxRank == 2         \* ranked species counted by SpecCount
MaxPerSpecies == 2   \* organisms per species in SpecCount

Nil == 0
OrgIds == 1..MaxOrg

Range(f) == {f[i] : i \in DOMAIN f}

RECURSIVE SumSeq(_)
SumSeq(q) == IF q = <<>> THEN 0 ELSE q[1] + SumSeq(Tail(q))

SeqsUpTo(S, n) == UNION {[1..m -> S] : m \in 0..n}

\* Values of the variables a specification does not use.
NoRet == [op |-> "none", arg |-> Nil, ok |-> TRUE]
NoEntry == [Organisms |-> <<>>, member |-> FALSE, champions |-> {}, eliminated |-> {}]
NoPop == [species |-> <<>>, lastSpecies |-> 0]
NoLoc == [count |-> 0]
NoBaby == [branch |-> "none"]
NoConf == [DropOffAge |-> 0]

\* ------------------------------------------------ newSpecies, membership
\* addOrganism: s.Organisms = append(s.Organisms, o)
addOrganism(orgs, o) == Append(orgs, o)

\* The loop of removeOrganism: every element that is not org, in order.
RECURSIVE removeLoop(_, _)
removeLoop(orgs, o) ==
    IF orgs = <<>> THEN <<>>
    ELSE IF orgs[1] # o THEN <<orgs[1]>> \o removeLoop(Tail(orgs), o)
         ELSE removeLoop(Tail(orgs), o)

removeOrganismNoCheck(orgs, o) == [Organisms |-> removeLoop(orgs, o), ok |-> TRUE]

\* removeOrganism: the pair (new s.Organisms, ok); ok = FALSE is the error.
removeOrganism(orgs, o) ==
    LET kept == removeLoop(orgs, o) IN
    IF Len(kept) # Len(orgs) - 1
        THEN [Organisms |-> orgs, ok |-> FALSE]
        ELSE [Organisms |-> kept, ok |-> TRUE]

MembershipUnchanged ==
    UNCHANGED <<pc, org, Age, AgeOfLastImprovement, MaxFitnessEver, conf, calls,
                rank, spExpected, skim, pop, loc, baby>>

InitMembership ==
    /\ pc = "idle"
    /\ Organisms = <<>>
    /\ org = [o \in OrgIds |-> Nil]
    /\ Age = 1
    /\ AgeOfLastImprovement = 0
    /\ MaxFitnessEver = <<0, 1>>
    /\ conf = NoConf
    /\ ret = NoRet
    /\ entry = NoEntry
    /\ calls = 0
    /\ rank = <<>>
    /\ spExpected = <<>>
    /\ skim = 0
    /\ pop = NoPop
    /\ loc = NoLoc
    /\ baby = NoBaby

AddOrganism(o) ==
    /\ Len(Organisms) < MaxLen
    /\ Organisms' = addOrganism(Organisms, o)
    /\ entry' = [entry EXCEPT !.Organisms = Organisms,
                               !.member = o \in Range(Organisms)]
    /\ ret' = [op |-> "add", arg |-> o, ok |-> TRUE]
    /\ MembershipUnchanged

\* ret.op = "addremove" marks a removal of the organism the previous call added;
\* entry then still describes the species before that addition.
RemoveOrganism(o) ==
    LET r == removeOrganism(Organisms, o)
        afterAdd == ret.op = "add" /\ ret.arg = o
    IN
    /\ Organisms' = r.Organisms
    /\ ret' = [op |-> IF afterAdd THEN "addremove" ELSE "remove", arg |-> o, ok |-> r.ok]
    /\ entry' = IF afterAdd THEN entry
                ELSE [entry EXCEPT !.Organisms = Organisms,
                                   !.member = o \in Range(Organisms)]
    /\ MembershipUnchanged

NextMembership ==
    \/ \E o \in OrgIds : AddOrganism(o)
    \/ \E o \in OrgIds : RemoveOrganism(o)

SpecMembership == InitMembership /\ [][NextMembership]_vars

RECURSIVE GCD(_, _)
GCD(a, b) == IF b = 0 THEN a ELSE GCD(b, a % b)

Abs(a) == IF a < 0 THEN 0 - a ELSE a

Frac(n, d) ==
    IF n = 0 THEN <<0, 1>>
    ELSE LET g == GCD(Abs(n), d) IN <<n \div g, d \div g>>

FracMul(x, y) == Frac(x[1] * y[1], x[2] * y[2])
FracLess(x, y) == x[1] * y[2] < y[1] * x[2]

NewOrganism == [Fitness |-> <<0, 1>>, OriginalFitness |-> <<0, 1>>,
                IsChampion |-> FALSE, ToEliminate |-> FALSE]

\* age_debt, with the zero debt forced to 1.
ageDebt(age, lastImprovement, dropOffAge) ==
    LET age_debt == (age - lastImprovement + 1) - dropOffAge IN
    IF age_debt = 0 THEN 1 ELSE age_debt

\* The body of the loop over s.Organisms for one organism record.
adjustOne(o, age_debt, age, cf, n) ==
    LET f0 == o.Fitness
        f1 == IF age_debt >= 1 THEN FracMul(f0, <<1, 100>>) ELSE f0
        f2 == IF age <= 10 THEN FracMul(f1, cf.AgeSignificance) ELSE f1
        f3 == IF FracLess(f2, <<0, 1>>) THEN <<1, 10000>> ELSE f2
    IN [o EXCEPT !.OriginalFitness = f0, !.Fitness = FracMul(f3, <<1, n>>)]

\* The loop over s.Organisms from position i on; an organism listed twice is
\* adjusted twice.
RECURSIVE adjustLoop(_, _, _, _, _, _)
adjustLoop(list, i, os, age_debt, age, cf) ==
    IF i > Len(list) THEN os
    ELSE adjustLoop(list, i + 1,
                    [os EXCEPT ![list[i]] = adjustOne(@, age_debt, age, cf, Len(list))],
                    age_debt, age, cf)

\* sort.Sort(ByFitness(s.Organisms)), most fit first: every arrangement of the
\* same organisms in descending fitness (sort.Sort does not fix the order of
\* ties).  Built by taking any most fit organism first.
WithoutIndex(list, i) == SubSeq(list, 1, i - 1) \o SubSeq(list, i + 1, Len(list))

MostFit(list, os) ==
    {i \in DOMAIN list : \A j \in DOMAIN list : ~FracLess(os[list[i]].Fitness, os[list[j]].Fitness)}

RECURSIVE sortByFitness(_, _)
sortByFitness(list, os) ==
    IF list = <<>> THEN {<<>>}
    ELSE UNION {{<<list[i]>> \o t : t \in sortByFitness(WithoutIndex(list, i), os)} :
                i \in MostFit(list, os)}

\* num_parents := int(math.Floor(conf.SurvivalThresh * float64(len(s.Organisms)) + 1.0))
numParents(cf, n) == (cf.SurvivalThresh[1] * n) \div cf.SurvivalThresh[2] + 1

\* The marking after the sort: the champion, and the organisms ranked too low.
\* Neither flag is ever reset.
markParentsNoChampion(sorted, os, num_parents) ==
    [o \in DOMAIN os |->
        [os[o] EXCEPT
            !.ToEliminate = @ \/ \E c \in num_parents..(Len(sorted) - 1) : sorted[c + 1] = o]]
markParentsSkipFirst(sorted, os, num_parents) ==
    [o \in DOMAIN os |->
        [os[o] EXCEPT
            !.IsChampion = @ \/ sorted[1] = o,
            !.ToEliminate = @ \/ \E c \in (num_parents + 1)..(Len(sorted) - 1) : sorted[c + 1] = o]]
markParents(sorted, os, num_parents) ==
    [o \in DOMAIN os |->
        [os[o] EXCEPT
            !.IsChampion = @ \/ sorted[1] = o,
            !.ToEliminate = @ \/ \E c \in num_parents..(Len(sorted) - 1) : sorted[c + 1] = o]]

MaxAdjust == 2       \* adjustFitness calls explored by SpecAdjust
MaxDen == 40000      \* adjustFitness is explored on fitness fractions up to this denominator

FitnessValues == {0 - 1, 1, 2}

AdjustConfs ==
    [DropOffAge : {1, 15}, AgeSignificance : {<<1, 1>>},
     SurvivalThresh : {<<1, 5>>, <<2, 5>>}]

AdjustUnchanged == UNCHANGED <<rank, spExpected, skim, pop, loc, baby>>

\* newSpecies(id) with the run's configuration; no organism created yet.
InitAdjust ==
    /\ pc = "idle"
    /\ Organisms = <<>>
    /\ org = [o \in OrgIds |-> NewOrganism]
    /\ Age = 1
    /\ AgeOfLastImprovement = 0
    /\ MaxFitnessEver = <<0, 1>>
    /\ conf \in AdjustConfs
    /\ ret = NoRet
    /\ entry = NoEntry
    /\ calls = 0
    /\ rank = <<>>
    /\ spExpected = <<>>
    /\ skim = 0
    /\ pop = NoPop
    /\ loc = NoLoc
    /\ baby = NoBaby

\* The driver puts a new organism, already evaluated, into the new species.
\* Organisms are numbered in the order they join.
AddMember(o, f) ==
    /\ pc = "idle"
    /\ calls = 0
    /\ o = Len(Organisms) + 1
    /\ Organisms' = addOrganism(Organisms, o)
    /\ org' = [org EXCEPT ![o].Fitness = <<f, 1>>]
    /\ ret' = [op |-> "add", arg |-> o, ok |-> TRUE]
    /\ UNCHANGED <<pc, Age, AgeOfLastImprovement, MaxFitnessEver, conf, entry, calls>>
    /\ AdjustUnchanged

\* Between two adjustFitness calls an evaluation writes a member's Fitness.
Evaluate(o, f) ==
    /\ pc = "idle"
    /\ ret.op = "adjust"
    /\ calls < MaxAdjust
    /\ o \in Range(Organisms)
    /\ org[o].Fitness # <<f, 1>>
    /\ org' = [org EXCEPT ![o].Fitness = <<f, 1>>]
    /\ ret' = [op |-> "evaluate", arg |-> o, ok |-> TRUE]
    /\ UNCHANGED <<pc, Organisms, Age, AgeOfLastImprovement, MaxFitnessEver, conf, entry, calls>>
    /\ AdjustUnchanged

\* adjustFitness on a species with organisms.
AdjustFitness ==
    /\ pc = "idle"
    /\ calls < MaxAdjust
    /\ Organisms # <<>>
    /\ \A o \in Range(Organisms) : org[o].Fitness[2] <= MaxDen
    /\ \E adjusted \in {adjustLoop(Organisms, 1, org,
                                    ageDebt(Age, AgeOfLastImprovement, conf.DropOffAge),
                                    Age, conf)} :
       \E sorted \in sortByFitness(Organisms, adjusted) :
            LET improved == FracLess(MaxFitnessEver, adjusted[sorted[1]].OriginalFitness)
                num_parents == numParents(conf, Len(sorted))
            IN
            /\ Organisms' = sorted
            /\ AgeOfLastImprovement' = IF improved THEN Age ELSE AgeOfLastImprovement
            /\ MaxFitnessEver' =
                 IF improved THEN adjusted[sorted[1]].OriginalFitness ELSE MaxFitnessEver
            /\ org' = markParents(sorted, adjusted, num_parents)
    /\ entry' = [Organisms |-> Organisms, member |-> FALSE,
                 champions |-> {o \in Range(Organisms) : org[o].IsChampion},
                 eliminated |-> {o \in Range(Organisms) : org[o].ToEliminate}]
    /\ ret' = [op |-> "adjust", arg |-> Nil, ok |-> TRUE]
    /\ calls' = calls + 1
    /\ UNCHANGED <<pc, Age, conf>>
    /\ AdjustUnchanged

\* adjustFitness on a species without organisms: the loop and the sort do
\* nothing and s.Organisms[0] is out of range, which panics.
AdjustFitnessEmpty ==
    /\ pc = "idle"
    /\ Organisms = <<>>
    /\ pc' = "panic"
    /\ ret' = [op |-> "adjust", arg |-> Nil, ok |-> FALSE]
    /\ UNCHANGED <<Organisms, org, Age, AgeOfLastImprovement, MaxFitnessEver, conf,
                   entry, calls>>
    /\ AdjustUnchanged

NextAdjust ==
    \/ \E o \in OrgIds, f \in FitnessValues : AddMember(o, f)
    \/ \E o \in OrgIds, f \in FitnessValues : Evaluate(o, f)
    \/ AdjustFitness
    \/ AdjustFitnessEmpty

SpecAdjust == InitAdjust /\ [][NextAdjust]_vars

\* The state right after an adjustFitness call that returned.
Adjusted == ret.op = "adjust" /\ ret.ok

Champions == {o \in Range(Organisms) : org[o].IsChampion}
Eliminated == {o \in Range(Organisms) : org[o].ToEliminate}

\* The organisms at sorted positions >= numParents (positions counted from 0).
LowTail == {Organisms[c + 1] : c \in numParents(conf, Len(Organisms))..(Len(Organisms) - 1)}

Max(a, b) == IF a >= b THEN a ELSE b

FirstIsMostFit ==
    \A i \in DOMAIN Organisms : ~FracLess(org[Organisms[1]].Fitness, org[Organisms[i]].Fitness)

\* No two members have the same adjusted fitness: the sort has one result.
NoTies ==
    \A i, j \in DOMAIN Organisms :
        i # j => org[Organisms[i]].Fitness # org[Organisms[j]].Fitness

\* C3 (as stated): after every adjustFitness call on a non-empty species,
\* repeated calls included, exactly one organism has isChampion = true, and it
\* is organisms[0], the organism with the highest adjusted fitness.  Stated
\* for the species whose sorted order is unique.
C3_ExactlyOneChampion ==
    Adjusted /\ NoTies => Champions = {Organisms[1]} /\ FirstIsMostFit

\* C3 (amended): after every adjustFitness call on a non-empty species,
\* organisms[0] has the highest adjusted fitness and has isChampion = true; the
\* flag is never cleared, so the champions are organisms[0] and the organisms
\* that were champions on entry.
C3_ChampionMarked ==
    Adjusted =>
        /\ org[Organisms[1]].IsChampion
        /\ FirstIsMostFit
        /\ Champions = {Organisms[1]} \cup entry.champions
        /\ (entry.champions = {} => Cardinality(Champions) = 1)

\* A second call after which the champion of the first call is still marked
\* beside the new organisms[0].
C3_Witness ==
    /\ Adjusted
    /\ NoTies
    /\ calls = 2
    /\ Cardinality(Champions) = 2
    /\ entry.champions # {}
    /\ Organisms[1] \notin entry.champions

\* C4 (as stated): after every adjustFitness call on a non-empty species of
\* size n, repeated calls included, the organisms with toEliminate = true are
\* exactly the max(0, n - numParents) organisms at sorted positions >= numParents.
\* Stated for the species whose sorted order is unique.
C4_ExactlyTheTail ==
    Adjusted /\ NoTies =>
        /\ Eliminated = LowTail
        /\ Cardinality(Eliminated) =
             Max(0, Len(Organisms) - numParents(conf, Len(Organisms)))

\* C4 (amended): after every adjustFitness call on a non-empty species of
\* size n, every organism at a sorted position >= numParents has toEliminate =
\* true, these are max(0, n - numParents) organisms, and an organism at a
\* position below numParents is marked only if it was marked on entry (the
\* flag is never cleared).
C4_TailMarked ==
    Adjusted =>
        /\ LowTail \subseteq Eliminated
        /\ Cardinality(LowTail) = Max(0, Len(Organisms) - numParents(conf, Len(Organisms)))
        /\ Eliminated = LowTail \cup entry.eliminated
        /\ (entry.eliminated = {} => Eliminated = LowTail)

\* A second call that leaves a surviving position holding an organism marked
\* by the first call, with a non-empty tail.
C4_Witness ==
    /\ Adjusted
    /\ NoTies
    /\ calls = 2
    /\ LowTail # {}
    /\ Eliminated # LowTail
    /\ org[Organisms[1]].ToEliminate

\* ------------------------------------------------------ countOffspring
\* math.Floor and math.Mod(x, 1.0) on a share in units of 1/FracDen.
Floor(x) == x \div FracDen
Mod1(x) == IF x >= 0 THEN x % FracDen ELSE 0 - ((0 - x) % FracDen)

\* if skim >= 1.0 { ... }: the pair <<s.ExpectedOffspring, skim>> after it.
skimOffStrict(eo, sk) ==
    IF sk > FracDen THEN <<eo + Floor(sk), sk - Floor(sk) * FracDen>> ELSE <<eo, sk>>
skimOff(eo, sk) ==
    IF sk >= FracDen THEN <<eo + Floor(sk), sk - Floor(sk) * FracDen>> ELSE <<eo, sk>>

\* The loop over s.Organisms, from organism i on.
RECURSIVE countLoop(_, _, _, _)
countLoop(shares, i, eo, sk) ==
    IF i > Len(shares) THEN <<eo, sk>>
    ELSE LET e_o_intpart == Floor(shares[i])
             e_o_fracpart == Mod1(shares[i])
             r == skimOff(eo + e_o_intpart, sk + e_o_fracpart)
         IN countLoop(shares, i + 1, r[1], r[2])

countOffspring(shares, sk) == countLoop(shares, 1, 0, sk)

Shares == (0 - 2)..MaxShare

InitCount ==
    /\ pc = "idle"
    /\ Organisms = <<>>
    /\ org = [o \in OrgIds |-> Nil]
    /\ Age = 1
    /\ AgeOfLastImprovement = 0
    /\ MaxFitnessEver = <<0, 1>>
    /\ conf = NoConf
    /\ ret = NoRet
    /\ entry = NoEntry
    /\ calls = 0
    /\ rank = <<>>
    /\ spExpected = <<>>
    /\ skim = 0
    /\ pop = NoPop
    /\ loc = NoLoc
    /\ baby = NoBaby

\* What one call on a species whose organisms hold the given shares returns,
\* with the sum of the shares and whether all of them are non-negative.
Counted(shares, sk) ==
    [result |-> countOffspring(shares, sk),
     total |-> SumSeq(shares),
     nonneg |-> \A j \in DOMAIN shares : shares[j] >= 0]

\* The driver counts the next species of the ranking, chaining the skim.
CountOffspring ==
    /\ Len(spExpected) < MaxRank
    /\ \E c \in {Counted(shares, skim) : shares \in SeqsUpTo(Shares, MaxPerSpecies)} :
        /\ spExpected' = Append(spExpected, c.result[1])
        /\ skim' = c.result[2]
        /\ rank' = Append(rank, [total |-> c.total, nonneg |-> c.nonneg])
    /\ UNCHANGED <<pc, Organisms, org, Age, AgeOfLastImprovement, MaxFitnessEver,
                   conf, ret, entry, calls, pop, loc, baby>>

NextCount == CountOffspring

SpecCount == InitCount /\ [][NextCount]_vars

\* The sum of the individual shares of the species counted so far.
RECURSIVE IdealTotal(_)
IdealTotal(n) == IF n = 0 THEN 0 ELSE rank[n].total + IdealTotal(n - 1)

NonNegativeShares(n) == \A i \in 1..n : rank[i].nonneg

\* C2: with non-negative individual shares and the skim chained from 0, the
\* species' integer ExpectedOffspring plus the returned skim equal the sum of
\* the individual shares, the skim is in [0, 1), and so the integer total is
\* less than 1 below the ideal total.
C2_OffspringConservation ==
    LET n == Len(spExpected) IN
    NonNegativeShares(n) =>
        /\ SumSeq(spExpected) * FracDen + skim = IdealTotal(n)
        /\ 0 <= skim /\ skim < FracDen
        /\ IdealTotal(n) - SumSeq(spExpected) * FracDen < FracDen
        /\ IdealTotal(n) - SumSeq(spExpected) * FracDen >= 0

\* Two species counted, the first leaving a fraction, the second given a whole
\* offspring more than its own shares hold, and a fraction left at the end.
C2_Witness ==
    /\ Len(spExpected) = 2
    /\ NonNegativeShares(2)
    /\ skim > 0
    /\ rank[1].total > spExpected[1] * FracDen
    /\ spExpected[2] * FracDen > rank[2].total

\* ---------------------------------------------------------------- reproduce
Scale == 10          \* probabilities and uniform draws are multiples of 1/Scale
MaxOffspring == 6    \* largest s.ExpectedOffspring
MaxMated == 2        \* largest s.ExpectedOffspring of a species with several organisms
MaxSuperChamp == 2   \* largest SuperChampOffspring of the champion
GaussMax == 5        \* gaussian.StdGaussian() draws are integers in -GaussMax..GaussMax

\* rand.Float64() is in [0, 1): the draws explored.
Draws == {0, Scale \div 2, Scale - 1}

\* The outcomes of rand.Float64() < p and of rand.Float64() > p.
Less(p) == {d < p : d \in Draws}
Greater(p) == {d > p : d \in Draws}

\* rand.Float64() < 0.8 || conf.MutateAddLinkProb == 0.0
weightsOnly(cf) == {d * 10 < 8 * Scale \/ cf.MutateAddLinkProb = 0 : d \in Draws}

\* rand.Float64() < conf.MutateOnlyProb || poolsize == 1
mutateOnlyByDraw(cf, poolsize) == Less(cf.MutateOnlyProb)
mutateOnly(cf, poolsize) == {b \/ poolsize = 1 : b \in Less(cf.MutateOnlyProb)}

\* The mutation cascade: add node, else add link, else the non-structural ones.
mutationCascade(cf) ==
    {IF addNode THEN "mutateAddNode" ELSE IF addLink THEN "mutateAddLink"
                                     ELSE "mutateAllNonstructural" :
        addNode \in Less(cf.MutateAddNodeProb), addLink \in Less(cf.MutateAddLinkProb)}

\* The crossover cascade; the second threshold is
\* MateMultipointAvgProb / (MateMultipointAvgProb + MateSinglepointProb), NaN
\* (never above the draw) when both are 0.
crossoverCascade(cf) ==
    {IF multi THEN "mateMultipoint" ELSE IF avg THEN "mateMultipointAvg" ELSE "mateSinglepoint" :
        multi \in Less(cf.MateMultipointProb),
        avg \in {cf.MateMultipointAvgProb + cf.MateSinglepointProb > 0
                   /\ d * (cf.MateMultipointAvgProb + cf.MateSinglepointProb)
                        < cf.MateMultipointAvgProb * Scale : d \in Draws}}

\* A *Genome: the nil pointer, or the genome object that duplicate or
\* mateSinglepoint allocated in iteration born from the genomes of mom and dad.
\* The genes are the Genome's own business: a mutation changes the object in
\* place and leaves what is recorded here as it is.
NilGenome == [born |-> 0 - 1, how |-> "nil", mom |-> Nil, dad |-> Nil]

duplicate(mom, count) ==
    [born |-> count, how |-> "duplicate", mom |-> mom, dad |-> Nil]

mateSinglepoint(mom, dad, count) ==
    [born |-> count, how |-> "mateSinglepoint", mom |-> mom, dad |-> dad]

mutated(genome, mutation) == genome

\* new_genome after the crossover statement: only mateSinglepoint is assigned;
\* the results of mateMultipoint and mateMultipointAvg, called on new_genome
\* itself, are dropped.
crossover(op, new_genome, mom, dad, count) ==
    IF op = "mateSinglepoint" THEN mateSinglepoint(mom, dad, count) ELSE new_genome

\* randspeciesnum := int(math.Floor(randmult * (float64(len(sorted_species)) - 1.0) + 0.5))
\* with randmult = gauss / 4.0, cut at 1.0 from above only.
randSpeciesNum(gauss, n) ==
    LET randmult4 == IF gauss > 4 THEN 4 ELSE gauss
    IN (randmult4 * (n - 1) * 2 + 4) \div 8

\* The organism NewOrganism returns in iteration count.
BabyId(count) == 0 - (count + 1)

newBaby(count, branch, genome, mom, dad, op, applied) ==
    [id |-> BabyId(count), branch |-> branch, GNome |-> genome, mom |-> mom, dad |-> dad,
     op |-> op, applied |-> applied, mutationStructBaby |-> FALSE, mateBaby |-> FALSE,
     IsPopulationChampionChild |-> FALSE, SpeciesOf |-> Nil, compatible |-> FALSE]

\* createFirstSpecies: a new novel species holding the baby alone.
createFirstSpecies(p, b) ==
    [species |-> Append(p.species,
                        [Id |-> p.lastSpecies + 1, IsNovel |-> TRUE,
                         ExpectedOffspring |-> 0, Organisms |-> <<b>>]),
     lastSpecies |-> p.lastSpecies + 1]

\* The species whose first organism the baby can be compared with.
Candidates(p) == {i \in DOMAIN p.species : Len(p.species[i].Organisms) > 0}

\* The species assignment, given the first species found compatible (Nil: none).
assignSpecies(p, b, found) ==
    IF found = Nil THEN createFirstSpecies(p, b)
    ELSE [p EXCEPT !.species[found].Organisms = addOrganism(@, b)]

S == pop.species[loc.s]

\* The configurations explored: mutation-only reproduction switched off, or
\* link adding switched off; every other probability is one half.
ReproduceConfs ==
    {[MutateOnlyProb |-> only, MutateAddLinkProb |-> Scale \div 2 - only,
      MutateAddNodeProb |-> Scale \div 2, InterspeciesMateRate |-> Scale \div 2,
      MateMultipointProb |-> Scale \div 2, MateMultipointAvgProb |-> Scale \div 2,
      MateSinglepointProb |-> Scale \div 2, MateOnlyProb |-> Scale \div 2] :
        only \in {0, Scale \div 2}}

\* The organisms of a population whose species have the given sizes, numbered
\* species by species.
RECURSIVE Before(_, _)
Before(sizes, i) == IF i = 1 THEN 0 ELSE sizes[i - 1] + Before(sizes, i - 1)

SpeciesOfSizes(sizes, s, k) ==
    [i \in DOMAIN sizes |->
        [Id |-> i, IsNovel |-> FALSE, ExpectedOffspring |-> IF i = s THEN k ELSE 0,
         Organisms |-> [j \in 1..sizes[i] |-> Before(sizes, i) + j]]]

\* The populations explored, as the sizes of their species in rank order; the
\* species that reproduces is any of them whose fellows hold at most one organism.
Populations == {<<0>>, <<1>>, <<2>>, <<0, 1>>, <<1, 0>>, <<1, 1>>, <<1, 2>>, <<2, 0>>, <<2, 1>>}

\* The locals of reproduce before the call (interspecies tells which way the
\* latest choice of a dad went).
NoLocals == [s |-> Nil, sorted_species |-> <<>>, count |-> 0, poolsize |-> 0,
             thechamp |-> Nil, champ_done |-> FALSE, new_genome |-> NilGenome, mom |-> Nil,
             dad |-> Nil, randspecies |-> Nil, giveup |-> 0, randspeciesnum |-> 0,
             interspecies |-> FALSE]

InitReproduce ==
    /\ pc = "idle"
    /\ Organisms = <<>>
    /\ Age = 1
    /\ AgeOfLastImprovement = 0
    /\ MaxFitnessEver = <<0, 1>>
    /\ conf \in ReproduceConfs
    /\ ret = NoRet
    /\ entry = NoEntry
    /\ calls = 0
    /\ rank = <<>>
    /\ spExpected = <<>>
    /\ skim = 0
    /\ baby = NoBaby
    /\ \E sizes \in Populations :
       \E s \in DOMAIN sizes, k \in 0..MaxOffspring, super \in 0..MaxSuperChamp,
          champ \in BOOLEAN :
        LET n == Len(sizes) IN
        /\ \A i \in 1..n : i # s => sizes[i] <= 1
        /\ sizes[s] > 1 => k <= MaxMated
        /\ super = 0 => ~champ
        /\ sizes[s] = 0 => super = 0
        /\ pop = [species |-> SpeciesOfSizes(sizes, s, k), lastSpecies |-> n]
        /\ loc = [NoLocals EXCEPT !.s = s, !.sorted_species = [i \in 1..n |-> i]]
        /\ org = [o \in 1..(Before(sizes, n) + sizes[n]) |->
                    [SuperChampOffspring |->
                        IF sizes[s] > 0 /\ o = Before(sizes, s) + 1 THEN super ELSE 0,
                     IsPopulationChampion |->
                        sizes[s] > 0 /\ o = Before(sizes, s) + 1 /\ champ]]

ReproduceUnchanged ==
    UNCHANGED <<Organisms, Age, AgeOfLastImprovement, MaxFitnessEver, conf, calls,
                rank, spExpected, skim>>

\* The check for a mistake: an error value, nothing else changes.
ReproduceEmptySpecies ==
    /\ pc = "idle"
    /\ S.ExpectedOffspring > 0 /\ Len(S.Organisms) = 0
    /\ pc' = "error"
    /\ ret' = [op |-> "reproduce", arg |-> Nil, ok |-> FALSE]
    /\ entry' = [entry EXCEPT !.Organisms = S.Organisms]
    /\ UNCHANGED <<org, pop, loc, baby>>
    /\ ReproduceUnchanged

\* No offspring expected of an empty species: thechamp := s.Organisms[0] is out
\* of range, which panics.
ReproduceNoChampion ==
    /\ pc = "idle"
    /\ ~(S.ExpectedOffspring > 0 /\ Len(S.Organisms) = 0)
    /\ Len(S.Organisms) = 0
    /\ pc' = "panic"
    /\ ret' = [op |-> "reproduce", arg |-> Nil, ok |-> FALSE]
    /\ entry' = [entry EXCEPT !.Organisms = S.Organisms]
    /\ UNCHANGED <<org, pop, loc, baby>>
    /\ ReproduceUnchanged

\* The locals before the offspring loop.
ReproduceEnter ==
    /\ pc = "idle"
    /\ Len(S.Organisms) > 0
    /\ pc' = "loop"
    /\ loc' = [loc EXCEPT !.poolsize = Len(S.Organisms), !.thechamp = S.Organisms[1],
                          !.champ_done = FALSE, !.count = 0]
    /\ entry' = [entry EXCEPT !.Organisms = S.Organisms]
    /\ UNCHANGED <<org, pop, ret, baby>>
    /\ ReproduceUnchanged

\* The loop is over: return true.
ReproduceReturn ==
    /\ pc = "loop"
    /\ ~(loc.count < S.ExpectedOffspring)
    /\ pc' = "done"
    /\ ret' = [op |-> "reproduce", arg |-> Nil, ok |-> TRUE]
    /\ UNCHANGED <<org, pop, loc, baby, entry>>
    /\ ReproduceUnchanged

\* Branch 1: a clone of the super champion.
SuperChampOffspring ==
    /\ pc = "loop"
    /\ loc.count < S.ExpectedOffspring
    /\ org[loc.thechamp].SuperChampOffspring > 0
    /\ \E weights \in weightsOnly(conf) :
        LET left == org[loc.thechamp].SuperChampOffspring
            applied == IF left > 1
                       THEN (IF weights THEN "mutateLinkWeights" ELSE "mutateAddLink")
                       ELSE "none"
            genome == mutated(duplicate(loc.thechamp, loc.count), applied)
            b == newBaby(loc.count, "superchamp", genome, loc.thechamp, Nil, "none", applied)
        IN
        /\ loc' = [loc EXCEPT !.mom = loc.thechamp, !.new_genome = genome,
                              !.count = @ + 1]
        /\ baby' = [b EXCEPT !.IsPopulationChampionChild =
                                left = 1 /\ org[loc.thechamp].IsPopulationChampion]
        /\ org' = [org EXCEPT ![loc.thechamp].SuperChampOffspring = @ - 1]
    /\ UNCHANGED <<pc, pop, ret, entry>>
    /\ ReproduceUnchanged

\* Branch 2: the one clone of the species champion.
ChampionClone ==
    /\ pc = "loop"
    /\ loc.count < S.ExpectedOffspring
    /\ ~(org[loc.thechamp].SuperChampOffspring > 0)
    /\ ~loc.champ_done /\ S.ExpectedOffspring > 5
    /\ LET genome == duplicate(loc.thechamp, loc.count) IN
        /\ loc' = [loc EXCEPT !.mom = loc.thechamp, !.new_genome = genome,
                              !.champ_done = TRUE, !.count = @ + 1]
        /\ baby' = newBaby(loc.count, "champclone", genome, loc.thechamp, Nil, "none", "none")
    /\ UNCHANGED <<pc, org, pop, ret, entry>>
    /\ ReproduceUnchanged

\* Neither clone branch applies.
NoClone ==
    /\ pc = "loop"
    /\ loc.count < S.ExpectedOffspring
    /\ ~(org[loc.thechamp].SuperChampOffspring > 0)
    /\ ~(~loc.champ_done /\ S.ExpectedOffspring > 5)

\* Branch 3: mutation of a copy of a random mom.
MutateOnly ==
    /\ NoClone
    /\ TRUE \in mutateOnly(conf, loc.poolsize)
    /\ \E orgnum \in 0..(loc.poolsize - 1), applied \in mutationCascade(conf) :
        LET mom == S.Organisms[orgnum + 1]
            genome == mutated(duplicate(mom, loc.count), applied)
        IN
        /\ loc' = [loc EXCEPT !.mom = mom, !.new_genome = genome, !.count = @ + 1]
        /\ baby' = newBaby(loc.count, "mutate", genome, mom, Nil, "none", applied)
    /\ UNCHANGED <<pc, org, pop, ret, entry>>
    /\ ReproduceUnchanged

\* The mutation applied to the child: the cascade when
\* rand.Float64() > conf.MateOnlyProb || same GenomeId || compatibility == 0.0,
\* which is certain for one organism mated with itself and open for two
\* organisms; "none" otherwise.
mutationAfterMating(cf, mom, dad) ==
    LET mutate == IF mom = dad THEN {TRUE}
                  ELSE {draw \/ same : draw \in Greater(cf.MateOnlyProb), same \in BOOLEAN}
    IN {IF m THEN cascade ELSE "none" : m \in mutate, cascade \in mutationCascade(cf)}

\* Branch 4, a dad from the species itself.
MateWithinSpecies ==
    /\ NoClone
    /\ FALSE \in mutateOnly(conf, loc.poolsize)
    /\ TRUE \in Greater(conf.InterspeciesMateRate)
    /\ \E momnum \in 0..(loc.poolsize - 1), dadnum \in 0..(loc.poolsize - 1) :
        loc' = [loc EXCEPT !.mom = S.Organisms[momnum + 1], !.dad = S.Organisms[dadnum + 1],
                           !.interspecies = FALSE]
    /\ pc' = "mate"
    /\ UNCHANGED <<org, pop, ret, entry, baby>>
    /\ ReproduceUnchanged

\* Branch 4, a dad from outside: randspecies = s; giveup := 0.
MateOutsideSpecies ==
    /\ NoClone
    /\ FALSE \in mutateOnly(conf, loc.poolsize)
    /\ FALSE \in Greater(conf.InterspeciesMateRate)
    /\ \E momnum \in 0..(loc.poolsize - 1) :
        loc' = [loc EXCEPT !.mom = S.Organisms[momnum + 1], !.randspecies = loc.s,
                           !.giveup = 0, !.interspecies = TRUE]
    /\ pc' = "randspecies"
    /\ UNCHANGED <<org, pop, ret, entry, baby>>
    /\ ReproduceUnchanged

GaussDraws == (0 - GaussMax)..GaussMax

\* The values randspeciesnum can take in a population of n ranked species.
randSpeciesNums(n) == {randSpeciesNum(gauss, n) : gauss \in GaussDraws}

\* One turn of the loop: for ; randspecies == s && giveup < 5;
DrawRandSpecies ==
    /\ pc = "randspecies"
    /\ loc.randspecies = loc.s /\ loc.giveup < 5
    /\ \E num \in randSpeciesNums(Len(loc.sorted_species)) :
        /\ num \in 0..(Len(loc.sorted_species) - 1)
        /\ loc' = [loc EXCEPT !.randspeciesnum = num,
                              !.randspecies = loc.sorted_species[num + 1],
                              !.giveup = @ + 1]
    /\ UNCHANGED <<pc, org, pop, ret, entry, baby>>
    /\ ReproduceUnchanged

\* One turn of the loop whose index is outside sorted_species: a panic.
DrawRandSpeciesOutOfRange ==
    /\ pc = "randspecies"
    /\ loc.randspecies = loc.s /\ loc.giveup < 5
    /\ \E num \in randSpeciesNums(Len(loc.sorted_species)) :
        /\ num \notin 0..(Len(loc.sorted_species) - 1)
        /\ loc' = [loc EXCEPT !.randspeciesnum = num]
    /\ pc' = "panic"
    /\ UNCHANGED <<org, pop, ret, entry, baby>>
    /\ ReproduceUnchanged

\* After the loop: dad = randspecies.Organisms[0]; giveup and randspeciesnum
\* go out of scope.
OutsideDad ==
    /\ pc = "randspecies"
    /\ ~(loc.randspecies = loc.s /\ loc.giveup < 5)
    /\ Len(pop.species[loc.randspecies].Organisms) > 0
    /\ loc' = [loc EXCEPT !.dad = pop.species[loc.randspecies].Organisms[1],
                          !.giveup = 0, !.randspeciesnum = 0]
    /\ pc' = "mate"
    /\ UNCHANGED <<org, pop, ret, entry, baby>>
    /\ ReproduceUnchanged

\* After the loop, the species drawn has no organism: a panic.
OutsideDadOfEmptySpecies ==
    /\ pc = "randspecies"
    /\ ~(loc.randspecies = loc.s /\ loc.giveup < 5)
    /\ Len(pop.species[loc.randspecies].Organisms) = 0
    /\ pc' = "panic"
    /\ UNCHANGED <<org, pop, loc, ret, entry, baby>>
    /\ ReproduceUnchanged

\* Crossover, mutation, NewOrganism, the flags and the species assignment.  A
\* nil new_genome that mateMultipoint or mateMultipointAvg is called on stays
\* nil when these calls and the later ones on it return.  randspecies is
\* assigned before it is read again, so its value is dropped here.
MateOffspring ==
    /\ pc = "mate"
    /\ \E op \in crossoverCascade(conf), applied \in mutationAfterMating(conf, loc.mom, loc.dad),
          found \in Candidates(pop) \cup {Nil} :
        LET genome == mutated(crossover(op, loc.new_genome, loc.mom, loc.dad, loc.count), applied)
            mut_struct_baby == applied \in {"mutateAddNode", "mutateAddLink"}
            mate_baby == TRUE
            b == newBaby(loc.count, "mate", genome, loc.mom, loc.dad, op, applied)
        IN
        /\ loc' = [loc EXCEPT !.new_genome = genome, !.count = @ + 1,
                              !.randspecies = Nil]
        /\ baby' = [b EXCEPT !.mutationStructBaby = mut_struct_baby,
                             !.mateBaby = mate_baby,
                             !.SpeciesOf = IF found = Nil THEN Len(pop.species) + 1 ELSE found,
                             !.compatible = found # Nil]
        /\ pop' = assignSpecies(pop, b.id, found)
    /\ pc' = "loop"
    /\ UNCHANGED <<org, ret, entry>>
    /\ ReproduceUnchanged

\* mateMultipoint or mateMultipointAvg called on a nil new_genome, or a later
\* call on the nil genome, dereferences it: a panic.
MateOnNilGenome ==
    /\ pc = "mate"
    /\ loc.new_genome = NilGenome
    /\ crossoverCascade(conf) \cap {"mateMultipoint", "mateMultipointAvg"} # {}
    /\ pc' = "panic"
    /\ UNCHANGED <<org, pop, loc, ret, entry, baby>>
    /\ ReproduceUnchanged

NextReproduce ==
    \/ ReproduceEmptySpecies
    \/ ReproduceNoChampion
    \/ ReproduceEnter
    \/ SuperChampOffspring
    \/ ChampionClone
    \/ MutateOnly
    \/ MateWithinSpecies
    \/ MateOutsideSpecies
    \/ DrawRandSpecies
    \/ DrawRandSpeciesOutOfRange
    \/ OutsideDad
    \/ OutsideDadOfEmptySpecies
    \/ MateOffspring
    \/ MateOnNilGenome
    \/ ReproduceReturn

SpecReproduce == InitReproduce /\ [][NextReproduce]_vars

\* The iteration that created the latest baby.
BabyCount == 0 - baby.id - 1

\* The places of the population's species lists that hold organism o.
Memberships(o) ==
    {<<i, j>> \in (DOMAIN pop.species) \X (1..(MaxOffspring + 2)) :
        j <= Len(pop.species[i].Organisms) /\ pop.species[i].Organisms[j] = o}

\* C1: reproduce on a species with organisms and expectedOffspring = k creates
\* exactly k organisms, and each of them, whatever branch created it, is a
\* member of exactly one species: one whose first organism it is compatible
\* with, or a new species that holds it alone.
C1_EveryOffspringInOneSpecies ==
    pc = "done" /\ entry.Organisms # <<>> =>
        /\ loc.count = S.ExpectedOffspring
        /\ \A c \in 0..(loc.count - 1) : Cardinality(Memberships(BabyId(c))) = 1
        /\ baby.branch # "none" =>
            /\ baby.SpeciesOf # Nil
            /\ baby.compatible \/ pop.species[baby.SpeciesOf].Organisms = <<baby.id>>

\* C6: no operation aborts; reproduce returns the error exactly when
\* expectedOffspring > 0 and the species has no organisms, and then the
\* population and the organisms are as before.
C6_NoAbort ==
    /\ pc # "panic"
    /\ pc = "error" =>
        /\ S.ExpectedOffspring > 0 /\ S.Organisms = <<>>
        /\ pop.lastSpecies = Len(pop.species) /\ baby = NoBaby
    /\ pc \notin {"idle", "error"} => ~(S.ExpectedOffspring > 0 /\ entry.Organisms = <<>>)

\* C7: in reproduce on a species with exactly one organism, whatever
\* mutateOnlyProb and the draws are, every offspring that is not a clone of the
\* super champion or of the champion comes from the mutation-only branch: the
\* mating branch is never entered and no second parent is ever selected.
C7_SingleOrganismNeverMates ==
    loc.poolsize = 1 =>
        /\ pc \notin {"mate", "randspecies"}
        /\ loc.dad = Nil
        /\ baby.branch \in {"none", "superchamp", "champclone", "mutate"}

\* A single organism, mutation-only reproduction switched off, and the second
\* offspring made by the mutation-only branch all the same.
C7_Witness ==
    /\ loc.poolsize = 1
    /\ conf.MutateOnlyProb = 0
    /\ baby.branch = "mutate"
    /\ loc.count >= 2

\* C8: the genome of a baby of the mating branch is the result of the selected
\* crossover operator applied to mom's genome with dad's genome in this
\* iteration: never an older genome, never nil.
C8_BabyGenomeFromThisCrossover ==
    baby.branch = "mate" =>
        /\ baby.GNome # NilGenome
        /\ baby.GNome.born = BabyCount
        /\ baby.GNome.mom = baby.mom /\ baby.GNome.dad = baby.dad
        /\ baby.GNome.how = baby.op

\* C9: in the interspecies path every species index computed from a Gaussian
\* draw is in 0..len(sortedSpecies)-1, at most 5 draws are made, drawing goes
\* on only while the current species was drawn, and the second parent is
\* organisms[0] of the last species drawn, the current one only after 5 draws.
C9_RandSpeciesInRange ==
    /\ loc.randspeciesnum \in 0..(Len(loc.sorted_species) - 1)
    /\ loc.giveup <= 5
    /\ pc = "randspecies" /\ loc.giveup < 5 /\ loc.giveup > 0 /\ loc.randspecies # loc.s =>
        ~ENABLED DrawRandSpecies
    /\ pc = "mate" /\ loc.interspecies =>
        loc.dad = pop.species[loc.randspecies].Organisms[1]

\* C10: an organism made by the mutation-only or the mating branch has
\* mutationStructBaby true exactly when an add-node or add-link mutation was
\* applied to its genome in its iteration, and mateBaby true exactly when the
\* mating branch made it.
C10_OriginFlags ==
    baby.branch \in {"mutate", "mate"} =>
        /\ baby.mutationStructBaby = (baby.applied \in {"mutateAddNode", "mutateAddLink"})
        /\ baby.mateBaby = (baby.branch = "mate")

====
